---- MODULE Spec2Model ----
(***************************************************************************)
(* The board mutation core of the project-management tool: the task and    *)
(* comment handlers of backend/src/controllers/taskController.ts, the      *)
(* attachment upload of the upload routes, the board handler of            *)
(* projectController.ts, the member handlers of workspaceController.ts,    *)
(* the handlers of the socket server, and the socket hook and the project  *)
(* page of the frontend, over one workspace with one board of tasks.       *)
(*                                                                         *)
(* A handler is one action in the sequential specifications (requests      *)
(* served one at a time).  SpecConc splits moveTask at the await between   *)
(* its reads and its transaction, SpecInvite splits inviteUser at the      *)
(* await between its check and its create, SpecCreateConc and SpecPageRace *)
(* split createTask at its findFirst and at its create, and SpecJoinLeave  *)
(* and SpecReconnect split join-board at its lookup, so that requests      *)
(* interleave the way the single node process interleaves them.  An        *)
(* emitted event is delivered to the sockets of its room within the step   *)
(* that emits it.                                                          *)
(***************************************************************************)
EXTENDS Integers, Sequences, FiniteSets, TLC

\* ------------------------------------------------------------------ bounds
MaxTasks == 2       \* tasks ever created (ids are fresh cuids, never reused)
MaxPos == 2         \* largest position the model lets a write produce
MaxComments == 2    \* comments ever created
MaxInflight == 2    \* requests suspended at an await at the same time
MaxEventTasks == 1     \* tasks created where every mutation of a task is followed
MaxEventComments == 1  \* comments created where every mutation of a task is followed
MaxAttachments == 1    \* attachments ever uploaded

\* -------------------------------------------------------------- the data
Users == {"A", "B", "C"}
Roles == {"ADMIN", "MEMBER", "VIEWER"}
NoRole == "NONE"                    \* no workspace_members row
Creator == "A"                      \* Workspace.createdBy
Boards == {"b1"}
Columns == {"todo", "doing"}
Contents == {"x", "y"}              \* comment bodies
TaskIds == 1 .. MaxTasks
CommentIds == 1 .. MaxComments
Positions == 0 .. MaxPos
\* the sockets: one connection of each user, and a second connection of B
Conns == {"kA", "kB", "kB2", "kC"}
ConnUser(k) == IF k = "kA" THEN "A" ELSE IF k \in {"kB", "kB2"} THEN "B" ELSE "C"
\* the boards that have a room: the board of the tasks, and a second board of
\* the workspace
SocketBoards == Boards \cup {"b2"}
\* an optional request field: {} when absent, {v} when present
Opt(S) == {{}} \cup {{v} : v \in S}
TheValue(o) == CHOOSE v \in o : TRUE

VARIABLES
  members,        \* [Users -> Roles \cup {NoRole}]: workspace_members of the workspace
  memberRows,     \* [Users -> Nat]: how many workspace_members rows a user has
  columns,        \* [Boards -> SUBSET Columns]: Board.columns (ids only)
  tasks,          \* [stored task ids -> [boardId, columnId, position]]
  comments,       \* [stored comment ids -> [taskId, userId, content]]
  attachments,    \* [stored attachment ids -> [taskId, uploadedBy]]
  nextAttachmentId,  \* the next fresh attachment id
  nextTaskId,     \* the next fresh task id
  nextCommentId,  \* the next fresh comment id
  inflight,       \* requests suspended between their reads and their writes
  resp,           \* the request answered by the last step, and its status
  emitted,        \* the events the last step emitted, in order
  connected,      \* SUBSET Conns: the sockets whose connection to the server is up
  joined,         \* [Conns -> SUBSET SocketBoards]: the board rooms of each socket
  received,       \* [Conns -> events]: what the last step delivered to each socket
  client          \* [Conns -> Opt(Seq(task))]: the tasks state of the socket's page

vars == <<members, memberRows, columns, tasks, comments, attachments, nextAttachmentId,
          nextTaskId, nextCommentId, inflight, resp, emitted, connected, joined, received,
          client>>

\* ------------------------------------------------------- pure helpers
\* a role filter that lets every member through
AnyRole == {"ADMIN", "MEMBER", "VIEWER"}

\* The roles the mutation handlers ask for: members.where.role.in
WriterRoles == {"ADMIN", "MEMBER"}

\* workspace.members with where: { userId, role: { in: roles } }
MembersWhere(u, roles) == IF members[u] \in roles THEN {u} ELSE {}

\* workspace.members with where: { userId }
MembersOf(u) == MembersWhere(u, Roles)

\* taskSchema.position: z.number().int().min(0).default(0)
taskSchemaPosition(posOpt) == IF posOpt = {} THEN 0 ELSE TheValue(posOpt)

\* the tasks of one column of one board
TasksIn(ts, b, c) == {t \in DOMAIN ts : ts[t].boardId = b /\ ts[t].columnId = c}

SetMax(S) == CHOOSE m \in S : \A x \in S : x <= m

\* prisma.task.findFirst({where: {boardId, columnId}, orderBy: {position: 'desc'}}):
\* {} for null, else {maxPosition.position}
FindMaxPosition(ts, b, c) ==
  IF TasksIn(ts, b, c) = {} THEN {}
  ELSE {SetMax({ts[t].position : t \in TasksIn(ts, b, c)})}

\* an allocator that reuses the last position instead of the one after it
AllocPositionNoStep(position, maxPosition) ==
  IF position # 0 THEN position
  ELSE IF maxPosition # {} THEN TheValue(maxPosition) ELSE 0

\* position: position || (maxPosition ? maxPosition.position + 1 : 0)
AllocPosition(position, maxPosition) ==
  IF position # 0 THEN position
  ELSE IF maxPosition # {} THEN TheValue(maxPosition) + 1 ELSE 0

\* a read of the tasks to shift that leaves out the task at the position itself
FindTasksToUpdateAbove(ts, b, c, position) ==
  [t \in {x \in TasksIn(ts, b, c) : ts[x].position > position} |-> ts[t].position]

\* prisma.task.findMany({where: {boardId, columnId, position: {gte: position}}}):
\* the rows read, as id -> position at the time of the read
FindTasksToUpdate(ts, b, c, position) ==
  [t \in {x \in TasksIn(ts, b, c) : ts[x].position >= position} |-> ts[t].position]

\* the rows the transaction of moveTask updates
TxRows(id, tasksToUpdate) == DOMAIN tasksToUpdate \cup {id}

\* tx.task.update throws P2025 when its row is gone
TxThrows(ts, id, tasksToUpdate) == ~(TxRows(id, tasksToUpdate) \subseteq DOMAIN ts)

\* writes that also close the gap the moved task leaves in its old column
TxWritesCompacting(ts, id, columnId, position, tasksToUpdate) ==
  [t \in DOMAIN ts |->
     IF t = id THEN [ts[t] EXCEPT !.columnId = columnId, !.position = position]
     ELSE IF t \in DOMAIN tasksToUpdate
          THEN [ts[t] EXCEPT !.position = tasksToUpdate[t] + 1]
          ELSE IF /\ ts[t].boardId = ts[id].boardId
                  /\ ts[t].columnId = ts[id].columnId
                  /\ ts[id].columnId # columnId
                  /\ ts[t].position > ts[id].position
               THEN [ts[t] EXCEPT !.position = @ - 1]
               ELSE ts[t]]

\* the writes of the transaction, in order: every task read is set to the
\* position read + 1, then the moved task is set to (columnId, position)
TxWrites(ts, id, columnId, position, tasksToUpdate) ==
  [t \in DOMAIN ts |->
     IF t = id THEN [ts[t] EXCEPT !.columnId = columnId, !.position = position]
     ELSE IF t \in DOMAIN tasksToUpdate
          THEN [ts[t] EXCEPT !.position = tasksToUpdate[t] + 1]
          ELSE ts[t]]

\* the same writes outside a transaction: the loop stops at the first row that
\* is gone, and the writes made before it stay
MoveTxNoRollback(ts, id, columnId, position, tasksToUpdate) ==
  LET gone == {t \in DOMAIN tasksToUpdate : t \notin DOMAIN ts}
      done == {t \in DOMAIN tasksToUpdate :
                 \A g \in gone : tasksToUpdate[t] < tasksToUpdate[g]}
  IN  IF ~TxThrows(ts, id, tasksToUpdate)
      THEN TxWrites(ts, id, columnId, position, tasksToUpdate)
      ELSE [t \in DOMAIN ts |->
              IF t \in done THEN [ts[t] EXCEPT !.position = tasksToUpdate[t] + 1] ELSE ts[t]]

\* prisma.$transaction(async tx => ...): all the writes, or none when one throws
MoveTx(ts, id, columnId, position, tasksToUpdate) ==
  IF TxThrows(ts, id, tasksToUpdate) THEN ts
  ELSE TxWrites(ts, id, columnId, position, tasksToUpdate)

\* the largest position a move would write
ShiftFits(tasksToUpdate) == \A t \in DOMAIN tasksToUpdate : tasksToUpdate[t] + 1 <= MaxPos

\* a delete that leaves the comments of the task in place
NoCascade(cs, id) == cs

\* comments and attachments go with their task: onDelete: Cascade
CascadeAttachments(as, id) == [k \in {x \in DOMAIN as : as[x].taskId # id} |-> as[k]]

CascadeComments(cs, id) == [k \in {x \in DOMAIN cs : cs[x].taskId # id} |-> cs[k]]

\* the entity a task event carries
TaskEntity(ts, id) == [id |-> id, boardId |-> ts[id].boardId,
                       columnId |-> ts[id].columnId, position |-> ts[id].position,
                       assignedTo |-> ts[id].assignedTo]

Event(b, name, payload) == [room |-> b, event |-> name, payload |-> payload]

\* what a response records of its request: the task id, and the position field
\* of a createTask body
Req(id, posOpt) == [id |-> id, position |-> posOpt]

NoReq == Req(0, {})

Answer(op, status, u, req) == [op |-> op, status |-> status, user |-> u, req |-> req]

\* prisma.workspaceMember.findUnique({where: {workspaceId_userId}}) finds a row
IsWorkspaceMember(u) == members[u] # NoRole

\* ---------------------------------------------------- the room broadcaster
\* an emit to every socket of the server: io.emit
RecipientsEveryone(jn, room) == Conns

\* io.to(`board-${boardId}`): the sockets that are in the room
Recipients(jn, room) == {k \in Conns : room \in jn[k]}

\* the events of a step that reach socket k
Delivered(jn, events, k) == SelectSeq(events, LAMBDA e : k \in Recipients(jn, e.room))

\* the socket handlers of the project page, on its tasks state (a list of
\* entities): taskCreated appends the entity, taskUpdated and taskMoved replace
\* the entries of the same id, taskDeleted filters them out; the page has no
\* handler for comment events
ClientApply(copy, e) ==
  IF e.event = "taskCreated" THEN Append(copy, e.payload)
  ELSE IF e.event \in {"taskUpdated", "taskMoved"}
  THEN [i \in DOMAIN copy |-> IF copy[i].id = e.payload.id THEN e.payload ELSE copy[i]]
  ELSE IF e.event = "taskDeleted"
  THEN SelectSeq(copy, LAMBDA t : t.id # e.payload.taskId)
  ELSE copy

RECURSIVE ClientApplyAll(_, _)
ClientApplyAll(copy, events) ==
  IF events = << >> THEN copy
  ELSE ClientApplyAll(ClientApply(copy, Head(events)), Tail(events))

\* an emit that sends its events twice
EmitTwice(events) ==
  /\ emitted' = events \o events
  /\ received' = [k \in Conns |-> Delivered(joined, events \o events, k)]
  /\ client' = [k \in Conns |->
                  IF client[k] = {} THEN {}
                  ELSE {ClientApplyAll(TheValue(client[k]),
                                       Delivered(joined, events \o events, k))}]

\* io.to(room).emit(...) of a handler: the events go to the sockets of the room,
\* and a page that has loaded its tasks runs its handlers on them
Emit(events) ==
  /\ emitted' = events
  /\ received' = [k \in Conns |-> Delivered(joined, events, k)]
  /\ client' = [k \in Conns |->
                  IF client[k] = {} THEN {}
                  ELSE {ClientApplyAll(TheValue(client[k]), Delivered(joined, events, k))}]

\* every socket is connected, none is in a room, no page has loaded its tasks
NoSockets ==
  /\ connected = Conns
  /\ joined = [k \in Conns |-> {}]
  /\ received = [k \in Conns |-> << >>]
  /\ client = [k \in Conns |-> {}]

\* ------------------------------------------------------------------ Init
Init ==
  /\ members = [u \in Users |->
                  IF u = Creator THEN "ADMIN" ELSE IF u = "B" THEN "MEMBER" ELSE "VIEWER"]
  /\ memberRows = [u \in Users |-> 1]
  /\ columns = [b \in Boards |-> Columns]
  /\ tasks = << >>
  /\ comments = << >>
  /\ attachments = << >>
  /\ nextAttachmentId = 1
  /\ nextTaskId = 1
  /\ nextCommentId = 1
  /\ inflight = {}
  /\ resp = Answer("none", 0, Creator, NoReq)
  /\ emitted = << >>
  /\ NoSockets

\* ------------------------------------------------- task handlers, whole
\* createTask: the board is found (boards are never deleted here), the caller
\* needs a row with role ADMIN or MEMBER, the assignee (if any) needs a row,
\* then findFirst and create.
CreateTaskAssigned(u, b, c, posOpt, assignedTo) ==
  LET req == Req(nextTaskId, posOpt)
      position == AllocPosition(taskSchemaPosition(posOpt), FindMaxPosition(tasks, b, c))
      created == (nextTaskId :> [boardId |-> b, columnId |-> c, position |-> position,
                                 assignedTo |-> assignedTo])
  IN
  /\ nextTaskId <= MaxTasks
  /\ position <= MaxPos
  /\ IF MembersWhere(u, WriterRoles) = {}
     THEN /\ resp' = Answer("createTask", 403, u, req)
          /\ Emit(<< >>)
          /\ UNCHANGED <<tasks, nextTaskId>>
     ELSE IF assignedTo # {} /\ ~IsWorkspaceMember(TheValue(assignedTo))
     THEN /\ resp' = Answer("createTask", 400, u, req)
          /\ Emit(<< >>)
          /\ UNCHANGED <<tasks, nextTaskId>>
     ELSE /\ tasks' = tasks @@ created
          /\ nextTaskId' = nextTaskId + 1
          /\ resp' = Answer("createTask", 201, u, req)
          /\ Emit(<<Event(b, "taskCreated", TaskEntity(tasks', nextTaskId))>>)
  /\ UNCHANGED <<members, memberRows, joined, columns, comments, attachments,
                 nextAttachmentId, nextCommentId, inflight, connected>>

\* createTask with no assignedTo in the body
CreateTask(u, b, c, posOpt) == CreateTaskAssigned(u, b, c, posOpt, {})

\* moveTask: findUnique, the role check, findMany, the transaction, the emit
MoveTask(u, id, c, position) ==
  LET req == Req(id, {}) IN
  /\ IF id \notin DOMAIN tasks
     THEN /\ resp' = Answer("moveTask", 404, u, req)
          /\ Emit(<< >>)
          /\ UNCHANGED tasks
     ELSE IF MembersWhere(u, WriterRoles) = {}
     THEN /\ resp' = Answer("moveTask", 403, u, req)
          /\ Emit(<< >>)
          /\ UNCHANGED tasks
     ELSE LET tasksToUpdate == FindTasksToUpdate(tasks, tasks[id].boardId, c, position) IN
          /\ ShiftFits(tasksToUpdate)
          /\ tasks' = MoveTx(tasks, id, c, position, tasksToUpdate)
          /\ resp' = Answer("moveTask", 200, u, req)
          /\ Emit(<<Event(tasks[id].boardId, "taskMoved", TaskEntity(tasks', id))>>)
  /\ UNCHANGED <<members, memberRows, joined, columns, comments, attachments,
                 nextAttachmentId, nextTaskId, nextCommentId, inflight, connected>>

\* deleteTask: findUnique, the role check, delete (comments cascade), the emit
DeleteTask(u, id) ==
  LET req == Req(id, {}) IN
  /\ IF id \notin DOMAIN tasks
     THEN /\ resp' = Answer("deleteTask", 404, u, req)
          /\ Emit(<< >>)
          /\ UNCHANGED <<tasks, comments, attachments>>
     ELSE IF MembersWhere(u, WriterRoles) = {}
     THEN /\ resp' = Answer("deleteTask", 403, u, req)
          /\ Emit(<< >>)
          /\ UNCHANGED <<tasks, comments, attachments>>
     ELSE /\ tasks' = [t \in DOMAIN tasks \ {id} |-> tasks[t]]
          /\ comments' = CascadeComments(comments, id)
          /\ attachments' = CascadeAttachments(attachments, id)
          /\ resp' = Answer("deleteTask", 200, u, req)
          /\ Emit(<<Event(tasks[id].boardId, "taskDeleted", [taskId |-> id])>>)
  /\ UNCHANGED <<nextAttachmentId, members, memberRows, joined, columns, nextTaskId,
                 nextCommentId, inflight, connected>>

\* updateTask: findUnique, the role check, the assignee check, then the update
\* with the fields the body has (columnId, position and assignedTo are the
\* ones modelled), the emit
UpdateTask(u, id, colOpt, posOpt, assignedTo) ==
  LET req == Req(id, {})
      updateData(t) == [t EXCEPT
        !.columnId = IF colOpt # {} THEN TheValue(colOpt) ELSE @,
        !.position = IF posOpt # {} THEN TheValue(posOpt) ELSE @,
        !.assignedTo = IF assignedTo # {} THEN assignedTo ELSE @]
  IN
  /\ IF id \notin DOMAIN tasks
     THEN /\ resp' = Answer("updateTask", 404, u, req)
          /\ Emit(<< >>)
          /\ UNCHANGED tasks
     ELSE IF MembersWhere(u, WriterRoles) = {}
     THEN /\ resp' = Answer("updateTask", 403, u, req)
          /\ Emit(<< >>)
          /\ UNCHANGED tasks
     ELSE IF assignedTo # {} /\ ~IsWorkspaceMember(TheValue(assignedTo))
     THEN /\ resp' = Answer("updateTask", 400, u, req)
          /\ Emit(<< >>)
          /\ UNCHANGED tasks
     ELSE /\ tasks' = [tasks EXCEPT ![id] = updateData(tasks[id])]
          /\ resp' = Answer("updateTask", 200, u, req)
          /\ Emit(<<Event(tasks[id].boardId, "taskUpdated", TaskEntity(tasks', id))>>)
  /\ UNCHANGED <<members, memberRows, joined, columns, comments, attachments,
                 nextAttachmentId, nextTaskId, nextCommentId, inflight, connected>>

\* getTasks: any membership row of the caller opens the board's task list
GetTasks(u, b) ==
  /\ resp' = Answer("getTasks", IF MembersOf(u) = {} THEN 403 ELSE 200, u, NoReq)
  /\ Emit(<< >>)
  /\ UNCHANGED <<members, memberRows, joined, columns, tasks, comments, attachments,
                 nextAttachmentId, nextTaskId, nextCommentId, inflight, connected>>

\* getTask and getComments: the task must exist, then any membership row
ReadTask(op, u, id) ==
  /\ resp' = Answer(op,
                    IF id \notin DOMAIN tasks THEN 404
                    ELSE IF MembersOf(u) = {} THEN 403 ELSE 200,
                    u, Req(id, {}))
  /\ Emit(<< >>)
  /\ UNCHANGED <<members, memberRows, joined, columns, tasks, comments, attachments,
                 nextAttachmentId, nextTaskId, nextCommentId, inflight, connected>>

GetTask(u, id) == ReadTask("getTask", u, id)

GetComments(u, id) == ReadTask("getComments", u, id)

\* ------------------------------------------------------ comment handlers
\* an author check that also lets an ADMIN of the workspace through
IsAuthorOrAdmin(comment, u) == comment.userId = u \/ members[u] = "ADMIN"

\* the author check of updateComment and deleteComment: comment.userId !== userId
IsAuthor(comment, u) == comment.userId = u

CommentEntity(cs, id) == [id |-> id, taskId |-> cs[id].taskId,
                          userId |-> cs[id].userId, content |-> cs[id].content]

\* addComment: the task must exist, any membership row of the caller will do
AddComment(u, taskId, content) ==
  LET req == Req(nextCommentId, {})
      created == (nextCommentId :> [taskId |-> taskId, userId |-> u, content |-> content])
  IN
  /\ nextCommentId <= MaxComments
  /\ IF taskId \notin DOMAIN tasks
     THEN /\ resp' = Answer("addComment", 404, u, req)
          /\ Emit(<< >>)
          /\ UNCHANGED <<comments, nextCommentId>>
     ELSE IF MembersOf(u) = {}
     THEN /\ resp' = Answer("addComment", 403, u, req)
          /\ Emit(<< >>)
          /\ UNCHANGED <<comments, nextCommentId>>
     ELSE /\ comments' = comments @@ created
          /\ nextCommentId' = nextCommentId + 1
          /\ resp' = Answer("addComment", 201, u, req)
          /\ Emit(<<Event(tasks[taskId].boardId, "commentAdded",
                         CommentEntity(comments', nextCommentId))>>)
  /\ UNCHANGED <<attachments, nextAttachmentId, members, memberRows, joined, columns, tasks,
                 nextTaskId, inflight, connected>>

\* updateComment: findUnique, the author check, update, the emit.  The task of
\* a stored comment is stored (the comment goes with it) and names the room.
UpdateComment(u, id, content) ==
  LET req == Req(id, {}) IN
  /\ IF id \notin DOMAIN comments
     THEN /\ resp' = Answer("updateComment", 404, u, req)
          /\ Emit(<< >>)
          /\ UNCHANGED comments
     ELSE IF ~IsAuthor(comments[id], u)
     THEN /\ resp' = Answer("updateComment", 403, u, req)
          /\ Emit(<< >>)
          /\ UNCHANGED comments
     ELSE /\ comments' = [comments EXCEPT ![id].content = content]
          /\ resp' = Answer("updateComment", 200, u, req)
          /\ Emit(<<Event(tasks[comments[id].taskId].boardId, "commentUpdated",
                         CommentEntity(comments', id))>>)
  /\ UNCHANGED <<attachments, nextAttachmentId, members, memberRows, joined, columns, tasks,
                 nextTaskId, nextCommentId, inflight, connected>>

\* deleteComment: findUnique, the author check, delete, the emit
DeleteComment(u, id) ==
  LET req == Req(id, {}) IN
  /\ IF id \notin DOMAIN comments
     THEN /\ resp' = Answer("deleteComment", 404, u, req)
          /\ Emit(<< >>)
          /\ UNCHANGED comments
     ELSE IF ~IsAuthor(comments[id], u)
     THEN /\ resp' = Answer("deleteComment", 403, u, req)
          /\ Emit(<< >>)
          /\ UNCHANGED comments
     ELSE /\ comments' = [k \in DOMAIN comments \ {id} |-> comments[k]]
          /\ resp' = Answer("deleteComment", 200, u, req)
          /\ Emit(<<Event(tasks[comments[id].taskId].boardId, "commentDeleted",
                         [commentId |-> id])>>)
  /\ UNCHANGED <<attachments, nextAttachmentId, members, memberRows, joined, columns, tasks,
                 nextTaskId, nextCommentId, inflight, connected>>

\* ---------------------------------------------------------- attachments
\* the upload of a file to a task: the task must exist, any membership row of
\* the caller will do, the attachment row is created; no event is emitted
UploadAttachment(u, taskId) ==
  LET req == Req(nextAttachmentId, {})
      created == (nextAttachmentId :> [taskId |-> taskId, uploadedBy |-> u])
  IN
  /\ nextAttachmentId <= MaxAttachments
  /\ IF taskId \notin DOMAIN tasks
     THEN /\ resp' = Answer("uploadAttachment", 404, u, req)
          /\ UNCHANGED <<attachments, nextAttachmentId>>
     ELSE IF MembersOf(u) = {}
     THEN /\ resp' = Answer("uploadAttachment", 403, u, req)
          /\ UNCHANGED <<attachments, nextAttachmentId>>
     ELSE /\ attachments' = attachments @@ created
          /\ nextAttachmentId' = nextAttachmentId + 1
          /\ resp' = Answer("uploadAttachment", 201, u, req)
  /\ Emit(<< >>)
  /\ UNCHANGED <<members, memberRows, joined, columns, tasks, comments, nextTaskId,
                 nextCommentId, inflight, connected>>

\* ------------------------------------------------- workspace and board
\* removeUser without its check of the workspace's creator
RemoveUserAnyTarget(u, target) ==
  /\ IF MembersWhere(u, {"ADMIN"}) = {}
     THEN /\ resp' = Answer("removeUser", 403, u, NoReq)
          /\ UNCHANGED <<members, memberRows>>
     ELSE IF ~IsWorkspaceMember(target)
     THEN /\ resp' = Answer("removeUser", 404, u, NoReq)
          /\ UNCHANGED <<members, memberRows>>
     ELSE /\ members' = [members EXCEPT ![target] = NoRole]
          /\ memberRows' = [memberRows EXCEPT ![target] = 0]
          /\ resp' = Answer("removeUser", 200, u, NoReq)
  /\ Emit(<< >>)
  /\ UNCHANGED <<joined, columns, tasks, comments, attachments, nextAttachmentId, nextTaskId,
                 nextCommentId, inflight, connected>>

\* removeUser: the caller needs a row with role ADMIN, the creator stays, the
\* target's row must exist, then it is deleted
RemoveUser(u, target) ==
  /\ IF MembersWhere(u, {"ADMIN"}) = {}
     THEN /\ resp' = Answer("removeUser", 403, u, NoReq)
          /\ UNCHANGED <<members, memberRows>>
     ELSE IF Creator = target
     THEN /\ resp' = Answer("removeUser", 400, u, NoReq)
          /\ UNCHANGED <<members, memberRows>>
     ELSE IF ~IsWorkspaceMember(target)
     THEN /\ resp' = Answer("removeUser", 404, u, NoReq)
          /\ UNCHANGED <<members, memberRows>>
     ELSE /\ members' = [members EXCEPT ![target] = NoRole]
          /\ memberRows' = [memberRows EXCEPT ![target] = 0]
          /\ resp' = Answer("removeUser", 200, u, NoReq)
  /\ Emit(<< >>)
  /\ UNCHANGED <<joined, columns, tasks, comments, attachments, nextAttachmentId, nextTaskId,
                 nextCommentId, inflight, connected>>

\* updateBoard: the caller needs a row with role ADMIN or MEMBER; columns, when
\* the body has it, replaces Board.columns as it is (the name is not modelled)
UpdateBoard(u, b, colsOpt) ==
  /\ IF MembersWhere(u, WriterRoles) = {}
     THEN /\ resp' = Answer("updateBoard", 403, u, NoReq)
          /\ UNCHANGED columns
     ELSE /\ columns' = IF colsOpt = {} THEN columns
                        ELSE [columns EXCEPT ![b] = TheValue(colsOpt)]
          /\ resp' = Answer("updateBoard", 200, u, NoReq)
  /\ Emit(<< >>)
  /\ UNCHANGED <<members, memberRows, joined, tasks, comments, attachments, nextAttachmentId,
                 nextTaskId, nextCommentId, inflight, connected>>

\* ------------------------------------------------------ specifications
\* the callers of the task handlers: a MEMBER and a VIEWER
TaskCallers == {"B", "C"}

Next ==
  \/ \E u \in TaskCallers, b \in Boards, c \in Columns, p \in Opt(Positions) : CreateTask(u, b, c, p)
  \/ \E u \in TaskCallers, id \in TaskIds, c \in Columns, p \in Positions : MoveTask(u, id, c, p)
  \/ \E u \in TaskCallers, id \in TaskIds : DeleteTask(u, id)
  \/ \E u \in TaskCallers, b \in Boards : GetTasks(u, b)
  \/ \E u \in TaskCallers, id \in TaskIds : GetTask(u, id)
  \/ \E u \in TaskCallers, id \in TaskIds : GetComments(u, id)

Spec == Init /\ [][Next]_vars

\* createTask and moveTask only, createTask without a position in the body
NextCreateMove ==
  \/ \E u \in Users, b \in Boards, c \in Columns : CreateTask(u, b, c, {})
  \/ \E u \in Users, id \in TaskIds, c \in Columns, p \in Positions : MoveTask(u, id, c, p)

SpecCreateMove == Init /\ [][NextCreateMove]_vars

\* ------------------------------------- task handlers, split at the await
\* A request suspended after its reads: what it read, and what it will write.
Suspended(op, u, id, b, c, position, read) ==
  [op |-> op, user |-> u, id |-> id, boardId |-> b, columnId |-> c,
   position |-> position, read |-> read]

\* no request was answered by the last step: one was suspended at an await
Awaiting == Answer("await", 0, Creator, NoReq)

\* moveTask up to the transaction: findUnique, the role check and findMany
MoveTaskBegin(u, id, c, position) ==
  LET req == Req(id, {}) IN
  /\ IF id \notin DOMAIN tasks
     THEN /\ resp' = Answer("moveTask", 404, u, req)
          /\ UNCHANGED inflight
     ELSE IF MembersWhere(u, WriterRoles) = {}
     THEN /\ resp' = Answer("moveTask", 403, u, req)
          /\ UNCHANGED inflight
     ELSE LET b == tasks[id].boardId
              r == Suspended("moveTask", u, id, b, c, position,
                             FindTasksToUpdate(tasks, b, c, position))
          IN  /\ ShiftFits(r.read)
              /\ r \notin inflight
              /\ Cardinality(inflight) < MaxInflight
              /\ inflight' = inflight \cup {r}
              /\ resp' = Awaiting
  /\ Emit(<< >>)
  /\ UNCHANGED <<members, memberRows, joined, columns, tasks, comments, attachments,
                 nextAttachmentId, nextTaskId, nextCommentId, connected>>

\* the transaction of a suspended moveTask and what follows it: on a throw the
\* error handler answers 404 (P2025) and nothing is written or emitted
MoveTaskCommit(r) ==
  /\ r \in inflight
  /\ r.op = "moveTask"
  /\ ShiftFits(r.read)
  /\ inflight' = inflight \ {r}
  /\ tasks' = MoveTx(tasks, r.id, r.columnId, r.position, r.read)
  /\ IF TxThrows(tasks, r.id, r.read)
     THEN /\ resp' = Answer("moveTask", 404, r.user, Req(r.id, {}))
          /\ Emit(<< >>)
     ELSE /\ resp' = Answer("moveTask", 200, r.user, Req(r.id, {}))
          /\ Emit(<<Event(r.boardId, "taskMoved", TaskEntity(tasks', r.id))>>)
  /\ UNCHANGED <<members, memberRows, joined, columns, comments, attachments,
                 nextAttachmentId, nextTaskId, nextCommentId, connected>>

\* two transactions that update two rows in opposite orders may deadlock: the
\* database aborts one, which rolls back and is answered 500
MoveTaskAbort(r) ==
  /\ r \in inflight
  /\ r.op = "moveTask"
  /\ \E q \in inflight \ {r} :
        q.op = "moveTask" /\ Cardinality(TxRows(q.id, q.read) \cap TxRows(r.id, r.read)) >= 2
  /\ inflight' = inflight \ {r}
  /\ resp' = Answer("moveTask", 500, r.user, Req(r.id, {}))
  /\ Emit(<< >>)
  /\ UNCHANGED <<members, memberRows, joined, columns, tasks, comments, attachments,
                 nextAttachmentId, nextTaskId, nextCommentId, connected>>

\* B has created a task in todo and a task in doing
InitConc ==
  /\ members = [u \in Users |->
                  IF u = Creator THEN "ADMIN" ELSE IF u = "B" THEN "MEMBER" ELSE "VIEWER"]
  /\ memberRows = [u \in Users |-> 1]
  /\ columns = [b \in Boards |-> Columns]
  /\ tasks = <<[boardId |-> "b1", columnId |-> "todo", position |-> 0, assignedTo |-> {}],
              [boardId |-> "b1", columnId |-> "doing", position |-> 0, assignedTo |-> {}]>>
  /\ comments = << >>
  /\ attachments = << >>
  /\ nextAttachmentId = 1
  /\ nextTaskId = 3
  /\ nextCommentId = 1
  /\ inflight = {}
  /\ resp = Answer("createTask", 201, "B", Req(2, {}))
  /\ emitted = <<Event("b1", "taskCreated", TaskEntity(tasks, 2))>>
  /\ NoSockets

\* the callers of the interleaved requests: a MEMBER and a VIEWER
ConcCallers == {"B", "C"}

\* the interleaved moves drop their task in todo, first or second from the top
ConcColumns == {"todo"}
ConcPositions == {0, 1}

\* the ids of the tasks created so far, deleted ones included
CreatedIds == 1 .. (nextTaskId - 1)

NextConc ==
  \/ \E u \in ConcCallers, id \in CreatedIds, c \in ConcColumns, p \in ConcPositions :
        MoveTaskBegin(u, id, c, p)
  \/ \E r \in inflight : MoveTaskCommit(r)
  \/ \E r \in inflight : MoveTaskAbort(r)
  \/ \E id \in CreatedIds : DeleteTask("B", id)

SpecConc == InitConc /\ [][NextConc]_vars

\* B has created one task in todo
InitOneTask ==
  /\ members = [u \in Users |->
                  IF u = Creator THEN "ADMIN" ELSE IF u = "B" THEN "MEMBER" ELSE "VIEWER"]
  /\ memberRows = [u \in Users |-> 1]
  /\ columns = [b \in Boards |-> Columns]
  /\ tasks = <<[boardId |-> "b1", columnId |-> "todo", position |-> 0, assignedTo |-> {}]>>
  /\ comments = << >>
  /\ attachments = << >>
  /\ nextAttachmentId = 1
  /\ nextTaskId = 2
  /\ nextCommentId = 1
  /\ inflight = {}
  /\ resp = Answer("createTask", 201, "B", Req(1, {}))
  /\ emitted = <<Event("b1", "taskCreated", TaskEntity(tasks, 1))>>
  /\ NoSockets

\* the comments of a task, while members are removed from the workspace
NextComment ==
  \/ \E u \in Users, id \in 1 .. nextTaskId, x \in Contents : AddComment(u, id, x)
  \/ \E u \in Users, id \in CommentIds, x \in Contents : UpdateComment(u, id, x)
  \/ \E u \in Users, id \in CommentIds : DeleteComment(u, id)
  \/ \E u \in Users, id \in 1 .. nextTaskId : GetComments(u, id)
  \/ \E u, target \in Users : RemoveUser(u, target)

SpecComment == InitOneTask /\ [][NextComment]_vars

\* the column set of the board, while tasks are created and deleted
NextBoard ==
  \/ \E u \in Users, b \in Boards, c \in Columns : CreateTask(u, b, c, {})
  \/ \E u \in Users, id \in TaskIds : DeleteTask(u, id)
  \/ \E u \in Users, b \in Boards, cols \in Opt(SUBSET Columns) : UpdateBoard(u, b, cols)

SpecBoard == Init /\ [][NextBoard]_vars

\* ------------------------------------------------------------- claims
PositionsIn(ts, b, c) == {ts[t].position : t \in TasksIn(ts, b, c)}

\* the positions of a column are 0 .. n-1, one task each
DenseColumn(ts, b, c) ==
  /\ PositionsIn(ts, b, c) = 0 .. (Cardinality(TasksIn(ts, b, c)) - 1)
  /\ \A t1, t2 \in TasksIn(ts, b, c) : ts[t1].position = ts[t2].position => t1 = t2

\* the last step answered request op with the given status
Answered(r, ops, status) == r.op \in ops /\ r.status = status

\* C1: after any sequence of createTask and moveTask requests served one at a
\* time, the positions of every column of every board are exactly 0 .. n-1,
\* with no gap and no duplicate.
C1_DensePositions == \A b \in Boards, c \in Columns : DenseColumn(tasks, b, c)

\* C3: a moveTask whose destination is the task's current column and position
\* writes nothing: the stored tasks are the same after it as before it.
C3_MoveToSamePlaceIsNoOp ==
  [][(/\ Answered(resp', {"moveTask"}, 200)
      /\ resp'.req.id \in DOMAIN tasks
      /\ tasks'[resp'.req.id] = tasks[resp'.req.id])
     => tasks' = tasks]_vars

C9_SourceColumnRenumbered ==
  [][(/\ Answered(resp', {"moveTask"}, 200)
      /\ resp'.req.id \in DOMAIN tasks
      /\ tasks'[resp'.req.id].columnId # tasks[resp'.req.id].columnId
      /\ DenseColumn(tasks, tasks[resp'.req.id].boardId, tasks[resp'.req.id].columnId))
     => DenseColumn(tasks', tasks[resp'.req.id].boardId, tasks[resp'.req.id].columnId)]_vars

\* C10: createTask without a position in the body stores the task at the
\* largest position of its column plus one, and at 0 in an empty column.
C10_DefaultPositionIsEndOfColumn ==
  [][(Answered(resp', {"createTask"}, 201) /\ resp'.req.position = {}) =>
       LET t == tasks'[resp'.req.id]
           before == PositionsIn(tasks, t.boardId, t.columnId)
       IN  /\ resp'.req.id \notin DOMAIN tasks
           /\ t.position = IF before = {} THEN 0
                           ELSE (CHOOSE m \in before : \A x \in before : x <= m) + 1]_vars

\* a task has just been created without a position in a column that held one
C10_Witness ==
  /\ Answered(resp, {"createTask"}, 201)
  /\ resp.req.position = {}
  /\ tasks[resp.req.id].position = 1
  /\ Cardinality(TasksIn(tasks, tasks[resp.req.id].boardId, tasks[resp.req.id].columnId)) = 2

\* no two tasks of a column at the same position
NoDuplicatePositions(ts) ==
  \A t1, t2 \in DOMAIN ts :
    (/\ ts[t1].boardId = ts[t2].boardId
     /\ ts[t1].columnId = ts[t2].columnId
     /\ ts[t1].position = ts[t2].position) => t1 = t2

\* C2: moveTask requests into the same column that interleave (the read of the
\* tasks to shift of one before the transaction of the other) never leave two
\* tasks of the column at the same position.
C2_InterleavedMovesKeepPositionsDistinct == NoDuplicatePositions(tasks)

\* C4: a moveTask that fails (not found, forbidden, or an error inside the
\* transaction) leaves the column and position of every task as they were.
C4_FailedMoveWritesNothing ==
  [][(resp'.op = "moveTask" /\ resp'.status \in {403, 404, 500})
     => (tasks' = tasks /\ comments' = comments /\ emitted' = << >>)]_vars

\* a moveTask has failed inside its transaction: the task it moves is stored,
\* a task it had read to shift is gone
C4_Witness ==
  /\ Answered(resp, {"moveTask"}, 404)
  /\ resp.req.id \in DOMAIN tasks
  /\ inflight = {}

\* the requests that change tasks or comments
BoardMutations == {"createTask", "updateTask", "moveTask", "deleteTask",
                   "addComment", "updateComment", "deleteComment"}

\* C6: a caller with no membership row in the workspace is never served a
\* mutation of the board: the request does not succeed and neither tasks nor
\* comments change, whatever the caller's past membership or authorship.
C6_MutationsNeedMembership ==
  [][(resp'.op \in BoardMutations /\ members[resp'.user] = NoRole)
     => (resp'.status \notin {200, 201} /\ tasks' = tasks /\ comments' = comments
         /\ emitted' = << >>)]_vars

\* C7: updateComment and deleteComment on a stored comment succeed for its
\* author and answer 403, changing nothing, for every other user, an ADMIN
\* included; the author's update emits one commentUpdated event, carrying the
\* new content, to the room of the task's board.
C7_OnlyAuthorEditsComment ==
  [][(resp'.op \in {"updateComment", "deleteComment"} /\ resp'.req.id \in DOMAIN comments) =>
       LET id == resp'.req.id IN
       IF comments[id].userId = resp'.user
       THEN /\ resp'.status = 200
            /\ resp'.op = "deleteComment" => id \notin DOMAIN comments'
            /\ resp'.op = "updateComment" =>
                 /\ Len(emitted') = 1
                 /\ emitted'[1].event = "commentUpdated"
                 /\ emitted'[1].room = tasks[comments[id].taskId].boardId
                 /\ emitted'[1].payload.id = id
                 /\ emitted'[1].payload.content = comments'[id].content
       ELSE /\ resp'.status = 403
            /\ comments' = comments
            /\ emitted' = << >>]_vars

\* the ADMIN has just been refused the update of a MEMBER's comment
C7_Witness ==
  /\ Answered(resp, {"updateComment"}, 403)
  /\ resp.req.id \in DOMAIN comments
  /\ members[resp.user] = "ADMIN"
  /\ comments[resp.req.id].userId # resp.user

\* C8: an updateBoard never removes from the board a column that holds a task:
\* such an update is rejected and the column set stays.
C8_ColumnWithTasksStays ==
  [][resp'.op = "updateBoard" =>
       \A b \in Boards : \A c \in columns[b] \ columns'[b] : TasksIn(tasks, b, c) = {}]_vars

\* ------------------------------------------------ unknown column ids
\* the columnId of a createTask body: any non-empty string (taskSchema), here
\* the ids of the board's columns and one id the board does not have
RequestColumns == Columns \cup {"nope"}

NextColumn ==
  \/ \E u \in Users, b \in Boards, c \in RequestColumns : CreateTask(u, b, c, {})
  \/ \E u \in Users, id \in TaskIds : DeleteTask(u, id)

SpecColumn == Init /\ [][NextColumn]_vars

\* C11: a createTask that succeeds stores a task whose columnId is the id of
\* one of its board's columns; with any other columnId it creates no task.
C11_CreatedTaskIsInAColumnOfItsBoard ==
  [][Answered(resp', {"createTask"}, 201) =>
       tasks'[resp'.req.id].columnId \in columns[tasks'[resp'.req.id].boardId]]_vars

\* ------------------------------------------------- updates of one task
NextUpdate ==
  \/ \E u \in Users, id \in 1 .. nextTaskId, c \in Opt(Columns), p \in Opt(Positions),
        a \in Opt(Users) : UpdateTask(u, id, c, p, a)
  \/ \E u \in Users, id \in 1 .. nextTaskId, c \in Columns, p \in Positions :
        MoveTask(u, id, c, p)

SpecUpdate == InitOneTask /\ [][NextUpdate]_vars

\* C12: a successful updateTask leaves the columnId and the position of its
\* task as they were, whatever its body holds.
C12_UpdateKeepsColumnAndPosition ==
  [][Answered(resp', {"updateTask"}, 200) =>
       /\ tasks'[resp'.req.id].columnId = tasks[resp'.req.id].columnId
       /\ tasks'[resp'.req.id].position = tasks[resp'.req.id].position]_vars

\* ------------------------------------- the seven mutations of a board
\* by a MEMBER and a VIEWER, on the first tasks and comments of the board
NextEvents ==
  \/ \E u \in TaskCallers, b \in Boards, c \in Columns :
        nextTaskId <= MaxEventTasks /\ CreateTask(u, b, c, {})
  \/ \E u \in TaskCallers, id \in 1 .. nextTaskId, c \in Opt(Columns) :
        UpdateTask(u, id, c, {}, {})
  \/ \E u \in TaskCallers, id \in 1 .. nextTaskId, c \in Columns : MoveTask(u, id, c, 0)
  \/ \E u \in TaskCallers, id \in 1 .. nextTaskId : DeleteTask(u, id)
  \/ \E u \in TaskCallers, id \in 1 .. nextTaskId :
        nextCommentId <= MaxEventComments /\ AddComment(u, id, "x")
  \/ \E u \in TaskCallers, id \in 1 .. nextCommentId : UpdateComment(u, id, "y")
  \/ \E u \in TaskCallers, id \in 1 .. nextCommentId : DeleteComment(u, id)

SpecEvents == Init /\ [][NextEvents]_vars

\* the event of each mutation
EventName(op) ==
  CASE op = "createTask" -> "taskCreated"
    [] op = "updateTask" -> "taskUpdated"
    [] op = "moveTask" -> "taskMoved"
    [] op = "deleteTask" -> "taskDeleted"
    [] op = "addComment" -> "commentAdded"
    [] op = "updateComment" -> "commentUpdated"
    [] op = "deleteComment" -> "commentDeleted"

\* the board of the task, or of the comment's task, that request r was about,
\* read in the stores ts and cs
AffectedBoard(r, ts, cs) ==
  IF r.op \in {"createTask", "updateTask", "moveTask", "deleteTask"}
  THEN ts[r.req.id].boardId
  ELSE ts[cs[r.req.id].taskId].boardId

\* the payload of the event of request r once its write is in the stores ts, cs
CommittedPayload(r, ts, cs) ==
  CASE r.op \in {"createTask", "updateTask", "moveTask"} -> TaskEntity(ts, r.req.id)
    [] r.op = "deleteTask" -> [taskId |-> r.req.id]
    [] r.op \in {"addComment", "updateComment"} -> CommentEntity(cs, r.req.id)
    [] r.op = "deleteComment" -> [commentId |-> r.req.id]

\* C13: a mutation that succeeds emits exactly one event, the one of its kind,
\* to the room of the affected board, carrying the state its write has left
\* in storage; a mutation that is rejected emits nothing.
C13_OneEventPerCommittedMutation ==
  [][resp'.op \in BoardMutations =>
       IF resp'.status \in {200, 201}
       THEN /\ Len(emitted') = 1
            /\ emitted'[1].event = EventName(resp'.op)
            /\ emitted'[1].room =
                 IF resp'.op \in {"createTask", "addComment"}
                 THEN AffectedBoard(resp', tasks', comments')
                 ELSE AffectedBoard(resp', tasks, comments)
            /\ emitted'[1].payload = CommittedPayload(resp', tasks', comments')
            /\ resp'.op = "deleteTask" => resp'.req.id \notin DOMAIN tasks'
            /\ resp'.op = "deleteComment" => resp'.req.id \notin DOMAIN comments'
       ELSE emitted' = << >>]_vars

\* a comment has just been deleted by its author, and the event is out
C13_Witness ==
  /\ Answered(resp, {"deleteComment"}, 200)
  /\ Len(emitted) = 1
  /\ emitted[1].event = "commentDeleted"

\* ------------------------------------------------ sockets and pages
\* join-board: the board is found, the socket's user needs a membership row
\* (else the socket alone gets an error event); the socket joins the room, the
\* other sockets of the room get user-joined, the socket itself joined-board
JoinBoard(k, b) ==
  LET u == ConnUser(k) IN
  /\ k \in connected
  /\ resp' = Answer("join-board", 0, u, NoReq)
  /\ IF MembersOf(u) = {}
     THEN /\ UNCHANGED joined
          /\ emitted' = << >>
          /\ received' = [x \in Conns |->
                IF x = k THEN <<Event(b, "error", [user |-> u])>> ELSE << >>]
     ELSE /\ joined' = [joined EXCEPT ![k] = @ \cup {b}]
          /\ emitted' = <<Event(b, "user-joined", [user |-> u])>>
          /\ received' = [x \in Conns |->
                IF x = k THEN <<Event(b, "joined-board", [user |-> u])>>
                ELSE IF x \in Recipients(joined, b) THEN emitted' ELSE << >>]
  /\ UNCHANGED <<members, memberRows, columns, tasks, comments, attachments,
                 nextAttachmentId, nextTaskId, nextCommentId, inflight, client, connected>>

\* leave-board, sent by the cleanup of the project page: the socket leaves the
\* room, the other sockets of the room get user-left, the page's state is gone
LeaveBoard(k, b) ==
  LET u == ConnUser(k) IN
  /\ k \in connected
  /\ resp' = Answer("leave-board", 0, u, NoReq)
  /\ joined' = [joined EXCEPT ![k] = @ \ {b}]
  /\ emitted' = <<Event(b, "user-left", [user |-> u])>>
  /\ received' = [x \in Conns |->
        IF x # k /\ x \in Recipients(joined, b) THEN emitted' ELSE << >>]
  /\ client' = IF b \in Boards THEN [client EXCEPT ![k] = {}] ELSE client
  /\ UNCHANGED <<members, memberRows, columns, tasks, comments, attachments,
                 nextAttachmentId, nextTaskId, nextCommentId, inflight, connected>>

\* prisma.task.findMany({where: {boardId}, orderBy: {position: 'asc'}}) of
\* getTasks, over the ids S: the entities by position, those of equal position
\* by id (the database leaves their order open, and nothing here depends on it)
RECURSIVE TasksByPosition(_, _)
TasksByPosition(ts, S) ==
  IF S = {} THEN << >>
  ELSE LET t == CHOOSE x \in S : \A y \in S :
                   \/ ts[x].position < ts[y].position
                   \/ (ts[x].position = ts[y].position /\ x <= y)
       IN  <<TaskEntity(ts, t)>> \o TasksByPosition(ts, S \ {t})

\* loadTasks of a page: getTasks, and on 200 the page's tasks are the board's
\* tasks as stored
LoadTasks(k, b) ==
  LET u == ConnUser(k)
      found == {t \in DOMAIN tasks : tasks[t].boardId = b}
  IN
  /\ resp' = Answer("getTasks", IF MembersOf(u) = {} THEN 403 ELSE 200, u, NoReq)
  /\ emitted' = << >>
  /\ received' = [x \in Conns |-> << >>]
  /\ client' = IF MembersOf(u) = {} THEN client
                ELSE [client EXCEPT ![k] = {TasksByPosition(tasks, found)}]
  /\ UNCHANGED <<members, memberRows, joined, columns, tasks, comments, attachments,
                 nextAttachmentId, nextTaskId, nextCommentId, inflight, connected>>

\* the pages of the MEMBER and the VIEWER follow the board while the MEMBER
\* creates, moves and deletes tasks; a page loads its tasks while its socket is
\* in the board's room
NextClient ==
  \/ \E k \in {"kB", "kC"}, b \in Boards : JoinBoard(k, b)
  \/ \E k \in {"kB", "kC"}, b \in Boards : LeaveBoard(k, b)
  \/ \E k \in {"kB", "kC"}, b \in Boards : b \in joined[k] /\ LoadTasks(k, b)
  \/ \E b \in Boards, c \in Columns : CreateTask("B", b, c, {})
  \/ \E id \in 1 .. nextTaskId, c \in Columns, p \in ConcPositions : MoveTask("B", id, c, p)
  \/ \E id \in 1 .. nextTaskId : DeleteTask("B", id)

SpecClient == Init /\ [][NextClient]_vars

\* C14: a page that has loaded the board's tasks and whose socket has been in
\* the board's room since holds, for every stored task, the stored columnId
\* and position, and holds no other task (every event is delivered within
\* the step that emits it, so no event is in flight in any state).
C14_ClientConverges ==
  \A k \in Conns :
    client[k] # {} =>
      LET copy == TheValue(client[k]) IN
      /\ {copy[i].id : i \in DOMAIN copy} = DOMAIN tasks
      /\ \A i \in DOMAIN copy :
            /\ copy[i].columnId = tasks[copy[i].id].columnId
            /\ copy[i].position = tasks[copy[i].id].position

\* --------------------------------------------------- who gets an event
\* the sockets of the MEMBER and the VIEWER join and leave the rooms of two
\* boards (the ADMIN's stays out of every room) while the MEMBER and the VIEWER
\* send task requests, and the ADMIN removes the VIEWER
NextRooms ==
  \/ \E k \in {"kB", "kC"}, b \in SocketBoards : JoinBoard(k, b)
  \/ \E k \in {"kB", "kC"}, b \in SocketBoards : LeaveBoard(k, b)
  \/ \E u \in TaskCallers, b \in Boards : CreateTask(u, b, "todo", {})
  \/ \E u \in TaskCallers, id \in 1 .. nextTaskId : MoveTask(u, id, "doing", 0)
  \/ \E u \in TaskCallers, id \in 1 .. nextTaskId : DeleteTask(u, id)
  \/ RemoveUser(Creator, "C")

SpecRooms == Init /\ [][NextRooms]_vars

\* C15: the events of a mutation reach every socket that is in the room of the
\* affected board when they are emitted, the sockets of the caller included,
\* and no other socket.
C15_DeliveredToTheRoomOnly ==
  [][resp'.op \in BoardMutations =>
       \A k \in Conns :
         received'[k] =
           IF emitted' # << >> /\ emitted'[1].room \in joined[k] THEN emitted' ELSE << >>]_vars

\* the MEMBER has just created a task on b1: the MEMBER's socket, in the room of
\* b1, got the event, the VIEWER's socket, in the room of b2 only, did not
C15_Witness ==
  /\ Answered(resp, {"createTask"}, 201)
  /\ resp.user = "B"
  /\ joined["kB"] = {"b1"}
  /\ received["kB"] = emitted
  /\ Len(emitted) = 1
  /\ joined["kC"] = {"b2"}
  /\ received["kC"] = << >>

\* ------------------------------------------------- member management
\* the emails of an inviteUser body: the registered users and one email that
\* no user has
Invitees == Users \cup {"nobody"}

\* a workspace_members table without its unique index
NoUniqueIndex(rows, target) == FALSE

\* @@unique([workspaceId, userId]): prisma.workspaceMember.create throws P2002
\* when the user already has a row
UniqueIndexViolated(rows, target) == rows[target] > 0

\* inviteUser: the caller needs a row with role ADMIN, the email must be a
\* user's, the user must have no row yet, then the row is created
InviteUser(u, target, role) ==
  /\ IF MembersWhere(u, {"ADMIN"}) = {}
     THEN /\ resp' = Answer("inviteUser", 403, u, NoReq)
          /\ UNCHANGED <<members, memberRows>>
     ELSE IF target \notin Users
     THEN /\ resp' = Answer("inviteUser", 404, u, NoReq)
          /\ UNCHANGED <<members, memberRows>>
     ELSE IF IsWorkspaceMember(target) \/ UniqueIndexViolated(memberRows, target)
     THEN /\ resp' = Answer("inviteUser", 409, u, NoReq)
          /\ UNCHANGED <<members, memberRows>>
     ELSE /\ members' = [members EXCEPT ![target] = role]
          /\ memberRows' = [memberRows EXCEPT ![target] = @ + 1]
          /\ resp' = Answer("inviteUser", 201, u, NoReq)
  /\ Emit(<< >>)
  /\ UNCHANGED <<joined, columns, tasks, comments, attachments, nextAttachmentId, nextTaskId,
                 nextCommentId, inflight, connected>>

\* updateUserRole: the caller needs a row with role ADMIN, the creator keeps
\* ADMIN, then the target's row is updated (P2025, answered 404, without a row)
UpdateUserRole(u, target, role) ==
  /\ IF MembersWhere(u, {"ADMIN"}) = {}
     THEN /\ resp' = Answer("updateUserRole", 403, u, NoReq)
          /\ UNCHANGED members
     ELSE IF Creator = target /\ role # "ADMIN"
     THEN /\ resp' = Answer("updateUserRole", 400, u, NoReq)
          /\ UNCHANGED members
     ELSE IF ~IsWorkspaceMember(target)
     THEN /\ resp' = Answer("updateUserRole", 404, u, NoReq)
          /\ UNCHANGED members
     ELSE /\ members' = [members EXCEPT ![target] = role]
          /\ resp' = Answer("updateUserRole", 200, u, NoReq)
  /\ Emit(<< >>)
  /\ UNCHANGED <<memberRows, joined, columns, tasks, comments, attachments, nextAttachmentId,
                 nextTaskId, nextCommentId, inflight, connected>>

NextMembers ==
  \/ \E u \in Users, target \in Invitees, role \in Roles : InviteUser(u, target, role)
  \/ \E u, target \in Users : RemoveUser(u, target)
  \/ \E u, target \in Users, role \in Roles : UpdateUserRole(u, target, role)

SpecMembers == Init /\ [][NextMembers]_vars

\* C16: through every inviteUser, removeUser and updateUserRole the creator
\* keeps one membership row with role ADMIN; a removeUser of the creator and an
\* updateUserRole of the creator to MEMBER or VIEWER are refused (400, or 403
\* for a caller who is no ADMIN) and leave the members as they were.
C16_CreatorStaysAdmin ==
  [][/\ members'[Creator] = "ADMIN"
     /\ memberRows'[Creator] = 1
     /\ \A u \in Users :
          RemoveUser(u, Creator) =>
            (resp'.status \in {400, 403} /\ members' = members /\ memberRows' = memberRows)
     /\ \A u \in Users, role \in Roles \ {"ADMIN"} :
          UpdateUserRole(u, Creator, role) =>
            (resp'.status \in {400, 403} /\ members' = members /\ memberRows' = memberRows)
    ]_vars

\* B, made ADMIN by the creator, has just been refused a change of the
\* creator's role
C16_Witness ==
  /\ Answered(resp, {"updateUserRole"}, 400)
  /\ resp.user = "B"
  /\ members["B"] = "ADMIN"

\* C17: an updateBoard succeeds only for a caller whose role in the workspace
\* is ADMIN.
C17_BoardEditsNeedAdmin ==
  [][Answered(resp', {"updateBoard"}, 200) => members[resp'.user] = "ADMIN"]_vars

\* ------------------------------------------------------------ assignees
\* tasks are created in todo and assigned while the creator invites and
\* removes users
NextAssign ==
  \/ \E u \in Users, b \in Boards, a \in Opt(Users) : CreateTaskAssigned(u, b, "todo", {}, a)
  \/ \E u \in Users, id \in 1 .. nextTaskId, a \in Opt(Users) : UpdateTask(u, id, {}, {}, a)
  \/ \E target \in Users, role \in Roles : InviteUser(Creator, target, role)
  \/ \E target \in Users : RemoveUser(Creator, target)

SpecAssign == Init /\ [][NextAssign]_vars

\* C18: the assignee of every stored task that has one is a member of the
\* workspace of the task.
C18_AssigneeIsMember ==
  \A t \in DOMAIN tasks :
    tasks[t].assignedTo # {} => IsWorkspaceMember(TheValue(tasks[t].assignedTo))

\* --------------------------------------- inviteUser, split at the await
\* an inviteUser suspended after its existing-member check
SuspendedInvite(u, target, role) ==
  [op |-> "inviteUser", user |-> u, target |-> target, role |-> role]

\* inviteUser up to the create: the caller's role, the user of the email, and
\* the existing-member check
InviteUserBegin(u, target, role) ==
  /\ IF MembersWhere(u, {"ADMIN"}) = {}
     THEN /\ resp' = Answer("inviteUser", 403, u, NoReq)
          /\ UNCHANGED inflight
     ELSE IF target \notin Users
     THEN /\ resp' = Answer("inviteUser", 404, u, NoReq)
          /\ UNCHANGED inflight
     ELSE IF IsWorkspaceMember(target)
     THEN /\ resp' = Answer("inviteUser", 409, u, NoReq)
          /\ UNCHANGED inflight
     ELSE /\ SuspendedInvite(u, target, role) \notin inflight
          /\ Cardinality(inflight) < MaxInflight
          /\ inflight' = inflight \cup {SuspendedInvite(u, target, role)}
          /\ resp' = Awaiting
  /\ Emit(<< >>)
  /\ UNCHANGED <<members, memberRows, joined, columns, tasks, comments, attachments,
                 nextAttachmentId, nextTaskId, nextCommentId, connected>>

\* the create of a suspended inviteUser: the unique index throws P2002, which
\* the error handler answers 409, when the user has got a row since the check
InviteUserCommit(r) ==
  /\ r \in inflight
  /\ r.op = "inviteUser"
  /\ inflight' = inflight \ {r}
  /\ IF UniqueIndexViolated(memberRows, r.target)
     THEN /\ resp' = Answer("inviteUser", 409, r.user, NoReq)
          /\ UNCHANGED <<members, memberRows>>
     ELSE /\ members' = [members EXCEPT ![r.target] = r.role]
          /\ memberRows' = [memberRows EXCEPT ![r.target] = @ + 1]
          /\ resp' = Answer("inviteUser", 201, r.user, NoReq)
  /\ Emit(<< >>)
  /\ UNCHANGED <<joined, columns, tasks, comments, attachments, nextAttachmentId, nextTaskId,
                 nextCommentId, connected>>

\* the creator invites and removes the two other users, the invitations
\* interleaving at their awaits
NextInvite ==
  \/ \E target \in Invitees \ {Creator}, role \in Roles : InviteUserBegin(Creator, target, role)
  \/ \E r \in inflight : InviteUserCommit(r)
  \/ \E target \in Users \ {Creator} : RemoveUser(Creator, target)

SpecInvite == Init /\ [][NextInvite]_vars

\* C19: no user ever has two membership rows; an inviteUser by an ADMIN for a
\* user who has a row, at its existing-member check or at its create, is
\* answered 409 and leaves the members as they were.
C19_OneRowPerMember ==
  [][/\ \A u \in Users : memberRows'[u] <= 1
     /\ \A u \in Users : (memberRows'[u] = 1) = IsWorkspaceMember(u)'
     /\ \A target \in Users, role \in Roles :
          (InviteUserBegin(Creator, target, role) /\ IsWorkspaceMember(target)) =>
            (resp'.status = 409 /\ members' = members /\ memberRows' = memberRows)
     /\ \A r \in inflight :
          (InviteUserCommit(r) /\ IsWorkspaceMember(r.target)) =>
            (resp'.status = 409 /\ members' = members /\ memberRows' = memberRows)
    ]_vars

\* two invitations of the same user had passed the existing-member check: one
\* has just created the row, the other is still to run its create
C19_Witness ==
  /\ Answered(resp, {"inviteUser"}, 201)
  /\ \E r \in inflight : IsWorkspaceMember(r.target) /\ memberRows[r.target] = 1

\* ------------------------------------------ a task and what belongs to it
\* the first tasks of the board get comments and attachments and are updated,
\* moved and deleted, by a MEMBER and a VIEWER
NextDelete ==
  \/ \E u \in TaskCallers, b \in Boards :
        nextTaskId <= MaxEventTasks /\ CreateTask(u, b, "todo", {})
  \/ \E u \in TaskCallers, id \in 1 .. nextTaskId :
        nextCommentId <= MaxEventComments /\ AddComment(u, id, "x")
  \/ \E u \in TaskCallers, id \in 1 .. nextTaskId : UploadAttachment(u, id)
  \/ \E u \in TaskCallers, id \in 1 .. nextTaskId : UpdateTask(u, id, {}, {}, {})
  \/ \E u \in TaskCallers, id \in 1 .. nextTaskId : MoveTask(u, id, "doing", 0)
  \/ \E u \in TaskCallers, id \in 1 .. nextTaskId : DeleteTask(u, id)

SpecDelete == Init /\ [][NextDelete]_vars

\* C20: every stored comment and attachment belongs to a stored task, a
\* successful deleteTask leaves neither the task nor a comment or attachment
\* of it, and an updateTask, moveTask or deleteTask on the id of a deleted task
\* is answered 404 and changes nothing.
C20_DeleteTakesTheComments ==
  [][/\ \A k \in DOMAIN comments' : comments'[k].taskId \in DOMAIN tasks'
     /\ \A k \in DOMAIN attachments' : attachments'[k].taskId \in DOMAIN tasks'
     /\ Answered(resp', {"deleteTask"}, 200) =>
          /\ resp'.req.id \notin DOMAIN tasks'
          /\ \A k \in DOMAIN comments' : comments'[k].taskId # resp'.req.id
          /\ \A k \in DOMAIN attachments' : attachments'[k].taskId # resp'.req.id
     /\ (/\ resp'.op \in {"updateTask", "moveTask", "deleteTask"}
         /\ resp'.req.id < nextTaskId
         /\ resp'.req.id \notin DOMAIN tasks) =>
          /\ resp'.status = 404
          /\ tasks' = tasks
          /\ comments' = comments
          /\ attachments' = attachments
          /\ emitted' = << >>
    ]_vars

\* the only task ever created got a comment and an attachment and was then
\* deleted: neither is left, and a moveTask on its id has just been answered 404
C20_Witness ==
  /\ Answered(resp, {"moveTask"}, 404)
  /\ resp.req.id = 1
  /\ nextTaskId = 2
  /\ nextCommentId > 1
  /\ nextAttachmentId > 1
  /\ tasks = << >>
  /\ comments = << >>
  /\ attachments = << >>

\* ------------------------------------------------ one move, on its own
\* B has created one task in todo and two tasks in doing
InitThreeTasks ==
  /\ members = [u \in Users |->
                  IF u = Creator THEN "ADMIN" ELSE IF u = "B" THEN "MEMBER" ELSE "VIEWER"]
  /\ memberRows = [u \in Users |-> 1]
  /\ columns = [b \in Boards |-> Columns]
  /\ tasks = <<[boardId |-> "b1", columnId |-> "todo", position |-> 0, assignedTo |-> {}],
              [boardId |-> "b1", columnId |-> "doing", position |-> 0, assignedTo |-> {}],
              [boardId |-> "b1", columnId |-> "doing", position |-> 1, assignedTo |-> {}]>>
  /\ comments = << >>
  /\ attachments = << >>
  /\ nextAttachmentId = 1
  /\ nextTaskId = 4
  /\ nextCommentId = 1
  /\ inflight = {}
  /\ resp = Answer("createTask", 201, "B", Req(3, {}))
  /\ emitted = <<Event("b1", "taskCreated", TaskEntity(tasks, 3))>>
  /\ NoSockets

\* the three tasks are moved, one request at a time, by a MEMBER and a VIEWER
NextMove ==
  \E u \in TaskCallers, id \in 1 .. nextTaskId, c \in Columns, p \in Positions :
     MoveTask(u, id, c, p)

SpecMove == InitThreeTasks /\ [][NextMove]_vars

\* C22: after a successful moveTask(t, c, p) served alone, t is in column c at
\* position p, every other task that was in c at a position >= p is one
\* position further, every task of c at a position < p is where it was, and
\* the other tasks of c are in the same order as before.
C22_MoveShiftsTheDestination ==
  [][\A u \in TaskCallers, id \in DOMAIN tasks, c \in Columns, p \in Positions :
       (MoveTask(u, id, c, p) /\ resp'.status = 200) =>
          LET others == TasksIn(tasks, tasks[id].boardId, c) \ {id} IN
          /\ tasks'[id].columnId = c
          /\ tasks'[id].position = p
          /\ \A o \in others :
                /\ tasks'[o].columnId = c
                /\ tasks'[o].position =
                     IF tasks[o].position >= p THEN tasks[o].position + 1
                     ELSE tasks[o].position
          /\ \A o1, o2 \in others :
                tasks[o1].position < tasks[o2].position
                  => tasks'[o1].position < tasks'[o2].position
    ]_vars

\* the task of todo has just been moved to the top of doing: the two tasks
\* that were in doing at 0 and 1 are at 1 and 2
C22_Witness ==
  /\ Answered(resp, {"moveTask"}, 200)
  /\ resp.req.id = 1
  /\ tasks[1].columnId = "doing" /\ tasks[1].position = 0
  /\ tasks[2].columnId = "doing" /\ tasks[2].position = 1
  /\ tasks[3].columnId = "doing" /\ tasks[3].position = 2

\* C23: a moveTask to another column changes no task outside the destination
\* column but the moved one: the tasks left in the source column keep their
\* positions (the gap stays), and so do the tasks of every other column.
C23_MoveLeavesTheSourceColumn ==
  [][\A u \in TaskCallers, id \in DOMAIN tasks, c \in Columns, p \in Positions :
       (MoveTask(u, id, c, p) /\ resp'.status = 200 /\ tasks[id].columnId # c) =>
          /\ DOMAIN tasks' = DOMAIN tasks
          /\ \A o \in DOMAIN tasks \ {id} :
                (tasks[o].boardId # tasks[id].boardId \/ tasks[o].columnId # c)
                  => tasks'[o] = tasks[o]
    ]_vars

\* the first task of doing has just been moved to todo: the task it leaves in
\* doing is still at position 1, with nothing at position 0
C23_Witness ==
  /\ Answered(resp, {"moveTask"}, 200)
  /\ resp.req.id = 2
  /\ tasks[2].columnId = "todo"
  /\ tasks[1].columnId = "todo"
  /\ tasks[3].columnId = "doing" /\ tasks[3].position = 1
  /\ emitted[1].payload.id = 2

\* C25: a createTask with a position p in its body, p = 0 in a column that
\* holds tasks included, stores the new task at exactly position p.
C25_ExplicitPositionIsStored ==
  [][(Answered(resp', {"createTask"}, 201) /\ resp'.req.position # {})
     => tasks'[resp'.req.id].position = TheValue(resp'.req.position)]_vars

\* C30: every socket that is in the room of a board belongs to a user who has
\* a membership row in the board's workspace: a join-board by a user without
\* a row leaves the rooms as they are, and the sockets of a user removed by
\* removeUser are in no room any more.
C30_RoomsHoldMembersOnly ==
  \A k \in Conns : joined[k] # {} => IsWorkspaceMember(ConnUser(k))

\* ------------------------------------------- connections and signals
\* the connection of a socket goes down: the server takes the socket out of
\* its rooms before the disconnect handler runs, which so finds no room to
\* tell; a join-board still at its await holds the closed socket and reaches
\* no page any more; the page keeps its state
Disconnect(k) ==
  /\ k \in connected
  /\ connected' = connected \ {k}
  /\ joined' = [joined EXCEPT ![k] = {}]
  /\ inflight' = {r \in inflight : ~(r.op = "join-board" /\ r.conn = k)}
  /\ resp' = Answer("disconnect", 0, ConnUser(k), NoReq)
  /\ emitted' = << >>
  /\ received' = [x \in Conns |-> << >>]
  /\ UNCHANGED <<members, memberRows, columns, tasks, comments, attachments,
                 nextAttachmentId, nextTaskId, nextCommentId, client>>

\* the connection of a socket comes up, for the first time or again: the
\* server's socket is new and in no room, the hook's connect handler only logs
Connect(k) ==
  /\ k \notin connected
  /\ connected' = connected \cup {k}
  /\ resp' = Answer("connect", 0, ConnUser(k), NoReq)
  /\ emitted' = << >>
  /\ received' = [x \in Conns |-> << >>]
  /\ UNCHANGED <<members, memberRows, columns, tasks, comments, attachments,
                 nextAttachmentId, nextTaskId, nextCommentId, inflight, joined, client>>

\* the signals a socket may send about a board, and the event each is relayed as
Signals == {"typing-start", "typing-stop", "cursor-move", "task-focus", "task-unfocus"}

RelayedAs(signal) ==
  CASE signal \in {"typing-start", "typing-stop"} -> "user-typing"
    [] signal = "cursor-move" -> "cursor-update"
    [] signal = "task-focus" -> "task-focused"
    [] signal = "task-unfocus" -> "task-unfocused"

\* typing-start, typing-stop, cursor-move, task-focus, task-unfocus: the event
\* goes to the sockets of the room the message names, the sender excepted
\* (socket.to(room).emit)
Signal(k, b, signal) ==
  LET u == ConnUser(k) IN
  /\ k \in connected
  /\ resp' = Answer(signal, 0, u, NoReq)
  /\ emitted' = <<Event(b, RelayedAs(signal), [user |-> u])>>
  /\ received' = [x \in Conns |->
        IF x # k /\ x \in Recipients(joined, b) THEN emitted' ELSE << >>]
  /\ UNCHANGED <<members, memberRows, columns, tasks, comments, attachments,
                 nextAttachmentId, nextTaskId, nextCommentId, inflight, connected, joined,
                 client>>

\* the users of the sockets S, one entry for each socket (the array is filled
\* in the order the sockets joined, which is not modelled)
RECURSIVE UsersOfSockets(_)
UsersOfSockets(S) ==
  IF S = {} THEN << >>
  ELSE LET k == CHOOSE x \in S : TRUE IN <<ConnUser(k)>> \o UsersOfSockets(S \ {k})

\* get-online-users: the user of every socket of the room is pushed to an
\* array, which is sent to the asking socket alone
GetOnlineUsers(k, b) ==
  LET u == ConnUser(k)
      onlineUsers == UsersOfSockets(Recipients(joined, b))
  IN
  /\ k \in connected
  /\ resp' = Answer("get-online-users", 0, u, NoReq)
  /\ emitted' = << >>
  /\ received' = [x \in Conns |->
        IF x = k THEN <<Event(b, "online-users", [boardId |-> b, users |-> onlineUsers])>>
        ELSE << >>]
  /\ UNCHANGED <<members, memberRows, columns, tasks, comments, attachments,
                 nextAttachmentId, nextTaskId, nextCommentId, inflight, connected, joined,
                 client>>

\* the two sockets of the MEMBER and the socket of the VIEWER connect, join and
\* leave the room of the board, disconnect, and ask who is online
NextOnline ==
  \/ \E k \in {"kB", "kB2", "kC"}, b \in Boards : JoinBoard(k, b)
  \/ \E k \in {"kB", "kB2", "kC"}, b \in Boards : LeaveBoard(k, b)
  \/ \E k \in {"kB", "kB2", "kC"} : Disconnect(k)
  \/ \E k \in {"kB", "kB2", "kC"} : Connect(k)
  \/ \E k \in {"kB", "kB2", "kC"}, b \in Boards : GetOnlineUsers(k, b)

SpecOnline == Init /\ [][NextOnline]_vars

\* how many entries of the sequence s are x
Occurrences(s, x) == Cardinality({i \in DOMAIN s : s[i] = x})

\* C21: get-online-users for a board answers with the users who have a socket
\* in the board's room: each of them once, however many sockets the user has
\* there, and no user whose sockets have all left the room or disconnected.
C21_OnlineUsersOnceEach ==
  [][\A k \in Conns, b \in Boards :
       GetOnlineUsers(k, b) =>
         \A u \in Users :
           Occurrences(received'[k][1].payload.users, u) =
             IF \E x \in Conns : ConnUser(x) = u /\ b \in joined[x] THEN 1 ELSE 0
    ]_vars

\* the sockets send signals about two boards, the sockets of the MEMBER and
\* the VIEWER joining and leaving the rooms, the socket of the ADMIN in no room
NextSignals ==
  \/ \E k \in {"kB", "kC"}, b \in SocketBoards : JoinBoard(k, b)
  \/ \E k \in {"kA", "kB", "kC"}, b \in SocketBoards : LeaveBoard(k, b)
  \/ \E k \in {"kA", "kB", "kC"}, b \in SocketBoards, signal \in Signals : Signal(k, b, signal)

SpecSignals == Init /\ [][NextSignals]_vars

\* C29: a socket that is not in the room of a board causes no event to reach
\* the sockets of that room: a typing-start, typing-stop, cursor-move,
\* task-focus, task-unfocus or leave-board naming the board is relayed to the
\* room only when its sender is in the room.
C29_OnlyRoomMembersSignal ==
  [][\A k \in Conns, b \in SocketBoards :
       (/\ b \notin joined[k]
        /\ \/ LeaveBoard(k, b)
           \/ \E signal \in Signals : Signal(k, b, signal))
       => \A x \in Conns : received'[x] = << >>
    ]_vars

\* ------------------------------------- createTask, split at its awaits
\* createTask with no position and no assignedTo in its body, up to the
\* create: the role check and the findFirst of the largest position
CreateTaskBegin(u, b, c) ==
  LET r == Suspended("createTask", u, 0, b, c, taskSchemaPosition({}),
                     FindMaxPosition(tasks, b, c))
  IN
  /\ IF MembersWhere(u, WriterRoles) = {}
     THEN /\ resp' = Answer("createTask", 403, u, Req(nextTaskId, {}))
          /\ UNCHANGED inflight
     ELSE /\ r \notin inflight
          /\ Cardinality(inflight) < MaxInflight
          /\ inflight' = inflight \cup {r}
          /\ resp' = Awaiting
  /\ Emit(<< >>)
  /\ UNCHANGED <<members, memberRows, joined, columns, tasks, comments, attachments,
                 nextAttachmentId, nextTaskId, nextCommentId, connected>>

\* the prisma.task.create of a suspended createTask: the row is stored, at the
\* position computed from what findFirst had read; the handler goes on later
CreateTaskCreate(r) ==
  LET position == AllocPosition(r.position, r.read)
      created == (nextTaskId :> [boardId |-> r.boardId, columnId |-> r.columnId,
                                 position |-> position, assignedTo |-> {}])
  IN
  /\ r \in inflight
  /\ r.op = "createTask"
  /\ nextTaskId <= MaxTasks
  /\ position <= MaxPos
  /\ tasks' = tasks @@ created
  /\ nextTaskId' = nextTaskId + 1
  /\ inflight' = (inflight \ {r}) \cup
                   {[r EXCEPT !.op = "createTaskCreated", !.id = nextTaskId,
                              !.position = position]}
  /\ resp' = Awaiting
  /\ Emit(<< >>)
  /\ UNCHANGED <<members, memberRows, joined, columns, comments, attachments,
                 nextAttachmentId, nextCommentId, connected>>

\* what follows the create: the emit of the task as the create returned it,
\* and the answer
CreateTaskFinish(r) ==
  LET task == [id |-> r.id, boardId |-> r.boardId, columnId |-> r.columnId,
               position |-> r.position, assignedTo |-> {}]
  IN
  /\ r \in inflight
  /\ r.op = "createTaskCreated"
  /\ inflight' = inflight \ {r}
  /\ resp' = Answer("createTask", 201, r.user, Req(r.id, {}))
  /\ Emit(<<Event(r.boardId, "taskCreated", task)>>)
  /\ UNCHANGED <<members, memberRows, joined, columns, tasks, comments, attachments,
                 nextAttachmentId, nextTaskId, nextCommentId, connected>>

\* createTask requests of the three users interleave at their awaits
NextCreateConc ==
  \/ \E u \in Users, b \in Boards, c \in Columns : CreateTaskBegin(u, b, c)
  \/ \E r \in inflight : CreateTaskCreate(r)
  \/ \E r \in inflight : CreateTaskFinish(r)

SpecCreateConc == Init /\ [][NextCreateConc]_vars

\* C24: createTask requests without a position into the same column of a board
\* that interleave, each reading the largest position of the column before
\* the other creates its task, store their tasks at distinct positions.
C24_InterleavedCreatesGetDistinctPositions ==
  [][\A r \in inflight :
       CreateTaskCreate(r) =>
         \A t \in DOMAIN tasks :
            ~(/\ tasks[t].boardId = r.boardId
              /\ tasks[t].columnId = r.columnId
              /\ tasks[t].position = tasks'[nextTaskId].position)
    ]_vars

\* ------------------------------------- a page loads while a task is created
\* the MEMBER's page joins the room of the board and loads its tasks while the
\* createTask requests of the ADMIN go through their awaits
NextPageRace ==
  \/ \E b \in Boards : JoinBoard("kB", b)
  \/ \E b \in Boards : LoadTasks("kB", b)
  \/ \E b \in Boards, c \in Columns : CreateTaskBegin(Creator, b, c)
  \/ \E r \in inflight : CreateTaskCreate(r)
  \/ \E r \in inflight : CreateTaskFinish(r)

SpecPageRace == Init /\ [][NextPageRace]_vars

\* C27: the task list of a page never holds the same task id twice, also when
\* the taskCreated event of a task reaches the page after the answer to its
\* getTasks that already holds the task.
C27_PageListsEachTaskOnce ==
  \A k \in Conns :
    client[k] # {} =>
      LET copy == TheValue(client[k]) IN
      \A i, j \in DOMAIN copy : copy[i].id = copy[j].id => i = j

\* ------------------------------------------- the page and its socket
\* a join-board suspended at its await: the socket, the board, and the
\* membership rows the lookup finds
SuspendedJoin(k, b, read) == [op |-> "join-board", conn |-> k, boardId |-> b, read |-> read]

\* the project page starts to show board b: its tasks state is the empty list,
\* its socket handlers are on, and its effect calls joinBoard, whose emit goes
\* out only when the socket is connected and is dropped otherwise; the server's
\* join-board handler starts its lookup.  (The effect's loadTasks is answered
\* in a step of its own.)
MountPage(k, b) ==
  LET r == SuspendedJoin(k, b, MembersOf(ConnUser(k))) IN
  /\ client[k] = {}
  /\ client' = [client EXCEPT ![k] = {<< >>}]
  /\ IF k \in connected
     THEN r \notin inflight /\ inflight' = inflight \cup {r}
     ELSE UNCHANGED inflight
  /\ resp' = Awaiting
  /\ emitted' = << >>
  /\ received' = [x \in Conns |-> << >>]
  /\ UNCHANGED <<members, memberRows, columns, tasks, comments, attachments,
                 nextAttachmentId, nextTaskId, nextCommentId, connected, joined>>

\* join-board after its lookup: without a membership row the socket alone gets
\* an error event; else the socket joins the room, the other sockets of the
\* room get user-joined, the socket itself joined-board
JoinBoardCommit(r) ==
  LET k == r.conn
      b == r.boardId
      u == ConnUser(r.conn)
  IN
  /\ r \in inflight
  /\ r.op = "join-board"
  /\ inflight' = inflight \ {r}
  /\ resp' = Answer("join-board", 0, u, NoReq)
  /\ IF r.read = {}
     THEN /\ UNCHANGED joined
          /\ emitted' = << >>
          /\ received' = [x \in Conns |->
                IF x = k THEN <<Event(b, "error", [user |-> u])>> ELSE << >>]
     ELSE /\ joined' = [joined EXCEPT ![k] = @ \cup {b}]
          /\ emitted' = <<Event(b, "user-joined", [user |-> u])>>
          /\ received' = [x \in Conns |->
                IF x = k THEN <<Event(b, "joined-board", [user |-> u])>>
                ELSE IF x \in Recipients(joined, b) THEN emitted' ELSE << >>]
  /\ UNCHANGED <<members, memberRows, columns, tasks, comments, attachments,
                 nextAttachmentId, nextTaskId, nextCommentId, connected, client>>

\* a join-board of socket k for board b is at its await
JoinInFlight(k, b) ==
  \E r \in inflight : r.op = "join-board" /\ r.conn = k /\ r.boardId = b

\* the pages of the MEMBER (two tabs) and the VIEWER start and stop showing the
\* board; a page that stops has sent its join-board before its leave-board
NextJoinLeave ==
  \/ \E k \in {"kB", "kB2", "kC"}, b \in Boards : MountPage(k, b)
  \/ \E r \in inflight : JoinBoardCommit(r)
  \/ \E k \in {"kB", "kB2", "kC"}, b \in Boards : client[k] # {} /\ LeaveBoard(k, b)
  \/ \E k \in {"kB", "kB2", "kC"}, b \in Boards : client[k] # {} /\ LoadTasks(k, b)

SpecJoinLeave == Init /\ [][NextJoinLeave]_vars

\* C28: when a socket has sent join-board and then leave-board for a board and
\* both handlers have run to their end, the socket is not in the board's room.
\* (The page sends join-board when it starts to show the board and leave-board
\* when it stops, so a page that is not showing has sent leave-board last.)
C28_LeaveAfterJoinLeavesTheRoom ==
  \A k \in Conns, b \in Boards :
    (client[k] = {} /\ ~JoinInFlight(k, b)) => b \notin joined[k]

\* --------------------------------------------------------- reconnection
\* the pages of the MEMBER and the VIEWER show the board while their sockets
\* disconnect and reconnect and the MEMBER creates the first tasks of the board
ReconnectPages == {"kB", "kC"}

ReconnectJoin(k) ==
  \E r \in inflight : r.op = "join-board" /\ r.conn = k /\ JoinBoardCommit(r)

ReconnectLoad(k) == \E b \in Boards : client[k] # {} /\ LoadTasks(k, b)

NextReconnect ==
  \/ \E k \in ReconnectPages, b \in Boards : MountPage(k, b)
  \/ \E k \in ReconnectPages : ReconnectJoin(k)
  \/ \E k \in ReconnectPages : ReconnectLoad(k)
  \/ \E k \in ReconnectPages : Connect(k)
  \/ \E k \in ReconnectPages : Disconnect(k)
  \/ \E k \in ReconnectPages, b \in Boards : client[k] # {} /\ LeaveBoard(k, b)
  \/ \E b \in Boards : nextTaskId <= MaxEventTasks /\ CreateTask("B", b, "todo", {})

\* for every socket: a handler at its await goes on, a getTasks is answered,
\* and the socket client reconnects by itself; connections may stay up and
\* pages may stay open
SpecReconnect ==
  /\ Init
  /\ [][NextReconnect]_vars
  /\ \A k \in ReconnectPages :
        WF_vars(ReconnectJoin(k)) /\ WF_vars(ReconnectLoad(k)) /\ WF_vars(Connect(k))

\* the page of socket k holds the stored tasks of board b, each once
PageMatchesStore(k, b) ==
  /\ client[k] # {}
  /\ LET copy == TheValue(client[k])
         found == {t \in DOMAIN tasks : tasks[t].boardId = b}
     IN  /\ Len(copy) = Cardinality(found)
         /\ {copy[i] : i \in DOMAIN copy} = {TaskEntity(tasks, t) : t \in found}

\* C26: a page that shows a board over a connected socket, after a reconnect
\* or after a join-board asked for before the first connect, is eventually in
\* the board's room again with a task list equal to the stored one (unless
\* the page stops showing the board or the socket disconnects again first).
C26_ReconnectedPageRejoins ==
  \A k \in ReconnectPages, b \in Boards :
    (k \in connected /\ client[k] # {})
      ~> (\/ k \notin connected
          \/ client[k] = {}
          \/ (b \in joined[k] /\ PageMatchesStore(k, b)))

====
